---- MODULE Spec2Model ----
(***************************************************************************)
(* structspec: the Python backend (structspec/languages/python.py).        *)
(* outputPython walks the enumerations and the packets of a specification  *)
(* document and emits, per packet, struct format segments, bitfield        *)
(* extraction lines and a constant size.  The model follows the function   *)
(* loop by loop; one action per loop body.                                 *)
(***************************************************************************)
EXTENDS Integers, Sequences, FiniteSets, TLC

(***************************************************************************)
(* Bounds of the explored documents.                                       *)
(***************************************************************************)
MaxFields == 3
MaxOptions == 3

(***************************************************************************)
(* common.py: the type catalogue.                                          *)
(***************************************************************************)
typeSizes ==
  [t \in {"char", "signed char", "unsigned char", "boolean", "_Bool",
          "int8_t", "uint8_t", "hollerith", "string", "str", "pascal",
          "padding"} |-> 8] @@
  [t \in {"short", "signed short", "unsigned short", "short int",
          "signed short int", "unsigned short int", "bool", "int16_t",
          "uint16_t", "pointer", "void"} |-> 16] @@
  [t \in {"int24_t", "uint24_t"} |-> 24] @@
  [t \in {"int", "signed int", "unsigned int", "long", "signed long",
          "unsigned long", "long int", "signed long int",
          "unsigned long int", "float", "int32_t", "uint32_t"} |-> 32] @@
  [t \in {"long long", "signed long long", "unsigned long long",
          "long long int", "signed long long int",
          "unsigned long long int", "double", "int64_t", "uint64_t"} |-> 64] @@
  [t \in {"long double"} |-> 128]

\* typeSizes.get(typeName, -1)
typeSizesGet(typeName) ==
  IF typeName \in DOMAIN typeSizes THEN typeSizes[typeName] ELSE -1

isStringType(typeName) ==
  typeName \in {"char", "string", "str", "hollerith", "pascal"}

isBooleanType(typeName) == typeName \in {"bool", "boolean", "_Bool"}

isFloatType(typeName) == typeName \in {"float", "double", "long double"}

(***************************************************************************)
(* languages/python.py: struct format characters.                          *)
(***************************************************************************)
typeFormatChar ==
  [t \in {"char", "hollerith"} |-> "c"] @@
  [t \in {"signed char", "int8_t"} |-> "b"] @@
  [t \in {"unsigned char", "uint8_t"} |-> "B"] @@
  [t \in {"short", "signed short", "short int", "signed short int",
          "int16_t"} |-> "h"] @@
  [t \in {"unsigned short", "unsigned short int", "uint16_t"} |-> "H"] @@
  [t \in {"int", "signed int", "bool"} |-> "i"] @@
  [t \in {"unsigned int"} |-> "I"] @@
  [t \in {"long", "signed long", "long int", "signed long int",
          "int32_t"} |-> "l"] @@
  [t \in {"unsigned long", "unsigned long int", "uint32_t"} |-> "L"] @@
  [t \in {"long long", "signed long long", "long long int",
          "signed long long int", "int64_t"} |-> "q"] @@
  [t \in {"unsigned long long", "unsigned long long int",
          "uint64_t"} |-> "Q"] @@
  [t \in {"float"} |-> "f"] @@
  [t \in {"double"} |-> "d"] @@
  [t \in {"long double"} |-> "QQ"] @@
  [t \in {"boolean", "_Bool"} |-> "?"] @@
  [t \in {"int24_t", "uint24_t"} |-> "BH"] @@
  [t \in {"string", "str"} |-> "s"] @@
  [t \in {"pascal"} |-> "p"] @@
  [t \in {"pointer", "void"} |-> "P"] @@
  [t \in {"padding"} |-> "x"]

endianFormatChar ==
  [e \in {"big"} |-> ">"] @@ [e \in {"little"} |-> "<"] @@
  [e \in {"network"} |-> "!"] @@ [e \in {"native"} |-> "@"]

\* endianFormatChar.get(endianness, '')
endianFormatCharGet(endianness) ==
  IF endianness \in DOMAIN endianFormatChar
    THEN endianFormatChar[endianness] ELSE ""

(***************************************************************************)
(* struct.calcsize.  A format is a sequence of one-character strings.      *)
(* Without a prefix, or with "@", sizes and alignment are the platform's   *)
(* (the C long and the pointer are 4 or 8 bytes: plat is that width); with *)
(* "<", ">", "!" or "=" sizes are the standard ones and nothing is         *)
(* aligned.  calcsize raises struct.error on a bad character, on "P"       *)
(* outside native mode and on a count without a code: StructError.         *)
(***************************************************************************)
StructError == -1

digitVal ==
  [c \in {"0"} |-> 0] @@ [c \in {"1"} |-> 1] @@ [c \in {"2"} |-> 2] @@
  [c \in {"3"} |-> 3] @@ [c \in {"4"} |-> 4] @@ [c \in {"5"} |-> 5] @@
  [c \in {"6"} |-> 6] @@ [c \in {"7"} |-> 7] @@ [c \in {"8"} |-> 8] @@
  [c \in {"9"} |-> 9]

digitChar == <<"0", "1", "2", "3", "4", "5", "6", "7", "8", "9">>

\* str(n) for a natural number, as a sequence of characters
RECURSIVE strOfNat(_)
strOfNat(n) ==
  IF n < 10 THEN <<digitChar[n + 1]>>
  ELSE strOfNat(n \div 10) \o <<digitChar[(n % 10) + 1]>>

standardSize ==
  [c \in {"x", "c", "b", "B", "?", "s", "p"} |-> 1] @@
  [c \in {"h", "H"} |-> 2] @@
  [c \in {"i", "I", "l", "L", "f"} |-> 4] @@
  [c \in {"q", "Q", "d"} |-> 8]

nativeSize(plat) ==
  [c \in {"x", "c", "b", "B", "?", "s", "p"} |-> 1] @@
  [c \in {"h", "H"} |-> 2] @@
  [c \in {"i", "I", "f"} |-> 4] @@
  [c \in {"l", "L", "P"} |-> plat] @@
  [c \in {"q", "Q", "d"} |-> 8]

alignUp(size, a) == ((size + a - 1) \div a) * a

\* i: position in fmt, num: the pending repeat count (-1: none), size: bytes
RECURSIVE calcsizeFrom(_, _, _, _, _, _)
calcsizeFrom(fmt, native, plat, i, num, size) ==
  IF i > Len(fmt) THEN (IF num >= 0 THEN StructError ELSE size)
  ELSE LET c == fmt[i]
           table == IF native THEN nativeSize(plat) ELSE standardSize
       IN  IF c \in DOMAIN digitVal
             THEN calcsizeFrom(fmt, native, plat, i + 1,
                    (IF num < 0 THEN 0 ELSE num * 10) + digitVal[c], size)
           ELSE IF c \notin DOMAIN table THEN StructError
           ELSE LET itemsize == table[c]
                    n == IF num < 0 THEN 1 ELSE num
                    at == IF native /\ c \notin {"s", "p"}
                            THEN alignUp(size, itemsize) ELSE size
                IN  calcsizeFrom(fmt, native, plat, i + 1, -1,
                                 at + n * itemsize)

calcsize(fmt, plat) ==
  IF fmt # <<>> /\ fmt[1] \in {"@", "=", "<", ">", "!"}
    THEN calcsizeFrom(fmt, fmt[1] = "@", plat, 2, -1, 0)
    ELSE calcsizeFrom(fmt, TRUE, plat, 1, -1, 0)


(***************************************************************************)
(* The specification document and Python values.                           *)
(*   value:  [kind, n]; kind "None", "int", "bool" (n is 0 or 1), "float"  *)
(*           (the float n + 0.5), "str" (the decimal string of n) or       *)
(*           "text" (a string that is not a Python expression)             *)
(*   option: [name, hasValue, value, type]       type Absent: no 'type'    *)
(*   enum:   [name, type, options]                                         *)
(*   field:  [name, ref, type, count, size, endianness]                    *)
(*           ref: the type starts with "#/"; type is then the text after   *)
(*           the last "/"                                                  *)
(*           count: [kind, n, label]; kind "none", "lit" (the digit n) or  *)
(*           "ref" (label: last path segment in front of "/value")         *)
(*           size: [kind, n, e, o]; kind "none", "lit" (the integer n),    *)
(*           "bad" (a literal int() rejects) or "ref" (to the value of     *)
(*           option o of enumeration e; 0, 0: no such path)                *)
(*   packet: [name, endianness, structure]                                 *)
(***************************************************************************)
Absent == "absent"
Unbound == "unbound"
None == [kind |-> "None", n |-> 0]
IntVal(n) == [kind |-> "int", n |-> n]

VARIABLES
  specification,   \* the document handed to outputPython
  platform,        \* bytes of the C long and pointer of the running build
  run,             \* which call of outputPython this is
  firstResult,     \* what the previous call produced
  pc,              \* position in outputPython
  exception,       \* the uncaught exception that ended the call, or ""
  stdout,          \* lines printed
  enumIdx, optionIdx, varType, value,
  namespace,       \* names bound by exec, in binding order
  enumLines,       \* the emitted "name = value" lines
  packetIdx, structureIdx,
  formatList, formatStrList, substructureList, varList, countList,
  bitFieldCount, bitFieldLen, bitFields, endianness, typeName,
  storageUnits,    \* the units handleBitFields added for the current
                   \* packet: [num, code, bits], code "" beyond 64 bits
  outBufStr,       \* the emitted body of the current unpack function
  packetLengths,   \* [name, len] in insertion order
  pyFile,          \* the emitted packets
  errArgs,         \* giveUp: err.args
  exitCode,        \* giveUp: the argument of exit, NoExit before it
  lineLenDefined,  \* writeOutBlock: the module defines __line_len__
  words,           \* writeOutBlock: len(word) of each word of outStr
  startWordNum, wordNum, lineLen,
  lines,           \* writeOutBlock: per line, the numbers of its words
  written          \* writeOutBlock: the words handed to writeOut

vars == <<specification, platform, run, firstResult, pc, exception, stdout,
          enumIdx, optionIdx, varType, value, namespace, enumLines,
          packetIdx, structureIdx, formatList, formatStrList,
          substructureList, varList, countList, bitFieldCount, bitFieldLen,
          bitFields, endianness, typeName, storageUnits, outBufStr,
          packetLengths, pyFile, errArgs, exitCode, lineLenDefined, words,
          startWordNum, wordNum, lineLen, lines, written>>

\* the state of the routines of common.py
utilVars == <<errArgs, exitCode, lineLenDefined, words, startWordNum,
              wordNum, lineLen, lines, written>>

docVars == <<specification, platform>>
enumVars == <<enumIdx, optionIdx, varType, value, namespace, enumLines>>
fieldVars == <<structureIdx, formatList, formatStrList, substructureList,
               varList, countList, bitFieldCount, bitFieldLen, bitFields,
               endianness, typeName, storageUnits, outBufStr>>
packetVars == <<packetIdx, packetLengths, pyFile>>

enums == specification.enums
packets == specification.packets

\* a dict kept as a sequence of [name, ...] entries: the last one counts
Bound(dict, name) == \E k \in 1..Len(dict) : dict[k].name = name
Lookup(dict, name) ==
  dict[CHOOSE k \in 1..Len(dict) :
         /\ dict[k].name = name
         /\ \A j \in (k + 1)..Len(dict) : dict[j].name # name]

(***************************************************************************)
(* Enumerations: python.py lines 239-300.                                  *)
(***************************************************************************)
\* lines 259-266
normalType(t) ==
  IF isStringType(t) THEN "str"
  ELSE IF isFloatType(t) THEN "float"
  ELSE IF isBooleanType(t) THEN "bool"
  ELSE "int"

\* isinstance(value, int): bool is a subclass of int
isInt(v) == v.kind \in {"int", "bool"}

\* lines 282-285
nextValue(v) == IF ~isInt(v) THEN IntVal(0) ELSE IntVal(v.n + 1)

\* exec 'name = value': what the name is bound to; a "text" is evaluated as
\* an expression, which raises NameError
execRaises(v) == v.kind = "text"
execValue(v) == IF v.kind = "str" THEN IntVal(v.n) ELSE v

\* where the function goes once the enumerations from i on are left
afterEnums(spec, i) == IF i <= Len(spec.enums) THEN "enum" ELSE "packet"

\* lines 239-250
BeginEnumeration ==
  /\ pc = "enum"
  /\ varType' = enums[enumIdx].type
  /\ value' = None
  /\ optionIdx' = 1
  /\ pc' = "option"
  /\ UNCHANGED <<utilVars, docVars, run, firstResult, exception, stdout, enumIdx,
                 namespace, enumLines, fieldVars, packetVars>>

\* lines 251-298, one option
CompileOption ==
  /\ pc = "option"
  /\ optionIdx <= Len(enums[enumIdx].options)
  /\ LET option == enums[enumIdx].options[optionIdx]
         t == IF option.type # Absent THEN option.type ELSE varType
         newType == IF option.hasValue THEN normalType(t)
                    ELSE IF varType = Absent THEN "int" ELSE varType
         newValue == IF option.hasValue THEN option.value
                     ELSE nextValue(value)
     IN  /\ varType' = newType
         /\ value' = newValue
         /\ enumLines' = Append(enumLines,
              [enum |-> enums[enumIdx].name, name |-> option.name,
               value |-> newValue, type |-> newType])
         /\ IF execRaises(newValue)
              THEN /\ pc' = "crashed"
                   /\ exception' = "NameError"
                   /\ UNCHANGED <<namespace, optionIdx>>
              ELSE /\ namespace' = Append(namespace,
                        [name |-> option.name, value |-> execValue(newValue)])
                   /\ optionIdx' = optionIdx + 1
                   /\ UNCHANGED <<pc, exception>>
  /\ UNCHANGED <<utilVars, docVars, run, firstResult, stdout, enumIdx, fieldVars,
                 packetVars>>

\* lines 299-300 and the loop's next round
EndEnumeration ==
  /\ pc = "option"
  /\ optionIdx > Len(enums[enumIdx].options)
  /\ enumIdx' = enumIdx + 1
  /\ pc' = afterEnums(specification, enumIdx + 1)
  /\ UNCHANGED <<utilVars, docVars, run, firstResult, exception, stdout, optionIdx,
                 varType, value, namespace, enumLines, fieldVars, packetVars>>


(***************************************************************************)
(* handleBitFields: python.py lines 92-143.  The caller's lists are        *)
(* appended to in place; bitFieldLen is an int, so the assignment of line  *)
(* 140 changes the parameter only and the caller keeps its own value.      *)
(***************************************************************************)
\* lines 130-139: the struct code of the storage unit, "" beyond 64 bits
storageUnit(len) ==
  IF len <= 8 THEN "B"
  ELSE IF len <= 16 THEN "H"
  ELSE IF len <= 32 THEN "L"
  ELSE IF len <= 64 THEN "Q"
  ELSE ""

bitFieldVar(num) == [kind |-> "bitField", name |-> "", num |-> num]
packetVar(name) == [kind |-> "packet", name |-> name, num |-> 0]

handleBitFields(len, count, fmtList, vList) ==
  IF len # 0
    THEN [count |-> count + 1,
          formatList |-> IF storageUnit(len) # ""
                           THEN Append(fmtList, storageUnit(len))
                           ELSE fmtList,
          varList |-> Append(vList, bitFieldVar(count)),
          printed |-> IF storageUnit(len) # "" THEN <<>>
                      ELSE <<"Bitfield too long.">>,
          units |-> <<[num |-> count, code |-> storageUnit(len),
                       bits |-> len]>>]
    ELSE [count |-> count, formatList |-> fmtList, varList |-> vList,
          printed |-> <<>>, units |-> <<>>]

(***************************************************************************)
(* handleStructBreaks: python.py lines 146-200.  Lines 198-200 rebind the  *)
(* three parameters, so the caller's lists keep their elements; only       *)
(* pyFile and formatStrList are changed.                                   *)
(***************************************************************************)
\* the characters of one element of formatList
charsOf(tok) ==
  IF tok = "QQ" THEN <<"Q", "Q">>
  ELSE IF tok = "BH" THEN <<"B", "H">>
  ELSE IF tok = "" THEN <<>>
  ELSE <<tok>>

\* ''.join(formatList)
RECURSIVE join(_)
join(list) ==
  IF list = <<>> THEN <<>> ELSE charsOf(Head(list)) \o join(Tail(list))

Line(kind, fmt, counts, vs, name, type, num, size, mask) ==
  [kind |-> kind, fmt |-> fmt, counts |-> counts, vars |-> vs,
   name |-> name, type |-> type, num |-> num, size |-> size, mask |-> mask]

\* lines 176-182
segmentFmt(fmtList, endian) ==
  charsOf(endianFormatCharGet(endian)) \o join(fmtList)

handleStructBreaks(file, fmtList, cList, vList, fmtStrList, endian) ==
  IF fmtList # <<>>
    THEN [pyFile |-> Append(file,
            Line("segment", segmentFmt(fmtList, endian), cList, vList,
                 "", "", 0, 0, 0)),
          formatStrList |-> Append(fmtStrList,
            [fmt |-> segmentFmt(fmtList, endian), counts |-> cList])]
    ELSE [pyFile |-> file, formatStrList |-> fmtStrList]

(***************************************************************************)
(* Packets: python.py lines 303-477.                                       *)
(***************************************************************************)
\* lines 327-333
BeginPacket ==
  /\ pc = "packet"
  /\ packetIdx <= Len(packets)
  /\ formatList' = <<>>
  /\ formatStrList' = <<>>
  /\ substructureList' = <<>>
  /\ varList' = <<>>
  /\ countList' = <<>>
  /\ bitFieldCount' = 0
  /\ bitFieldLen' = 0
  /\ bitFields' = <<>>
  /\ storageUnits' = <<>>
  /\ outBufStr' = <<>>
  /\ structureIdx' = 1
  /\ pc' = "field"
  /\ UNCHANGED <<utilVars, docVars, run, firstResult, exception, stdout, enumVars,
                 endianness, typeName, packetIdx, packetLengths, pyFile>>

\* lines 335-336
resolveEndianness(structure, packet, spec) ==
  IF structure.endianness # Absent THEN structure.endianness
  ELSE IF packet.endianness # Absent THEN packet.endianness
  ELSE IF spec.endianness # Absent THEN spec.endianness
  ELSE ""

\* resolveJsonPointer(specification, structure['size'][1:]): the value the
\* path leads to; JsonPointerException when the path leads nowhere
pointerResolves(spec, size) ==
  /\ size.e \in 1..Len(spec.enums)
  /\ size.o \in 1..Len(spec.enums[size.e].options)
  /\ spec.enums[size.e].options[size.o].hasValue
pointerValue(spec, size) == spec.enums[size.e].options[size.o].value

\* lines 362-373: sizeInBits as a Python value
sizeValue(spec, size) ==
  IF size.kind = "ref" THEN pointerValue(spec, size)
  ELSE IF size.kind = "lit" THEN IntVal(size.n)
  ELSE IntVal(0)

\* lines 374-376
isBitField(sizeInBits, type) ==
  sizeInBits # typeSizesGet(type) \/ sizeInBits % 8 # 0

\* line 383 with "=" for "+=": the pending bits are overwritten
addBitsOverwrite(len, sizeInBits) == sizeInBits

\* line 383
addBits(len, sizeInBits) == len + sizeInBits

\* lines 352-360: what the count adds in front of the field's code
countToken(count) ==
  IF count.kind = "ref" THEN <<"{}">>
  ELSE IF count.kind = "lit" THEN <<digitChar[count.n + 1]>>
  ELSE <<>>
countName(count) == IF count.kind = "ref" THEN <<count.label>> ELSE <<>>

\* lines 341-349: a field whose type is another packet
CompileSubstructure(structure, endian) ==
  LET hsb == handleStructBreaks(outBufStr, formatList, countList, varList,
                                formatStrList, endian)
  IN  /\ outBufStr' = Append(hsb.pyFile,
           Line("substructure", <<>>, <<>>, <<>>, structure.name,
                structure.type, 0, 0, 0))
      /\ formatStrList' = hsb.formatStrList
      /\ typeName' = structure.type
      /\ substructureList' = Append(substructureList, structure.type)
      /\ structureIdx' = structureIdx + 1
      /\ UNCHANGED <<formatList, countList, varList, bitFieldCount,
                     bitFieldLen, bitFields, storageUnits, stdout, pc,
                     exception>>

\* lines 351-385: a field of any other type
CompilePrimitive(structure) ==
  LET fmtList == formatList \o countToken(structure.count)
      cList == countList \o countName(structure.count)
      hasSize == structure.size.kind # "none"
      unresolved == structure.size.kind = "ref"
                      /\ ~pointerResolves(specification, structure.size)
      sized == IF hasSize /\ ~unresolved
                 THEN sizeValue(specification, structure.size) ELSE None
      sizeInBits == sized.n
      gotBitField == hasSize /\ (~isInt(sized)
                                   \/ isBitField(sizeInBits, structure.type))
      hbf == handleBitFields(bitFieldLen, bitFieldCount, fmtList, varList)
  IN  /\ typeName' = structure.type
      /\ countList' = cList
      /\ IF unresolved
           THEN /\ pc' = "crashed"
                /\ exception' = "JsonPointerException"
                /\ formatList' = fmtList
                /\ UNCHANGED <<varList, bitFieldCount, bitFieldLen,
                               bitFields, storageUnits, stdout,
                               structureIdx>>
         ELSE IF gotBitField /\ ~isInt(sized)
           THEN \* line 383: int += str
                /\ pc' = "crashed"
                /\ exception' = "TypeError"
                /\ formatList' = fmtList
                /\ UNCHANGED <<varList, bitFieldCount, bitFieldLen,
                               bitFields, storageUnits, stdout,
                               structureIdx>>
         ELSE IF structure.type \in DOMAIN typeFormatChar /\ ~gotBitField
           THEN /\ bitFieldCount' = hbf.count
                /\ formatList' =
                     Append(hbf.formatList, typeFormatChar[structure.type])
                /\ varList' = Append(hbf.varList, packetVar(structure.name))
                /\ stdout' = stdout \o hbf.printed
                /\ storageUnits' = storageUnits \o hbf.units
                /\ structureIdx' = structureIdx + 1
                /\ UNCHANGED <<bitFieldLen, bitFields, pc, exception>>
         ELSE IF gotBitField
           THEN /\ bitFieldLen' = addBits(bitFieldLen, sizeInBits)
                /\ bitFields' = Append(bitFields,
                     [name |-> structure.name, num |-> bitFieldCount,
                      size |-> sizeInBits])
                /\ formatList' = fmtList
                /\ structureIdx' = structureIdx + 1
                /\ UNCHANGED <<varList, bitFieldCount, storageUnits, stdout,
                               pc, exception>>
         ELSE /\ formatList' = fmtList
              /\ structureIdx' = structureIdx + 1
              /\ UNCHANGED <<varList, bitFieldCount, bitFieldLen, bitFields,
                             storageUnits, stdout, pc, exception>>
      /\ UNCHANGED <<outBufStr, formatStrList, substructureList>>

\* lines 334-389, one field
CompileField ==
  /\ pc = "field"
  /\ structureIdx <= Len(packets[packetIdx].structure)
  /\ LET structure == packets[packetIdx].structure[structureIdx]
         endian == resolveEndianness(structure, packets[packetIdx],
                                     specification)
     IN  /\ endianness' = endian
         /\ IF structure.ref
              THEN CompileSubstructure(structure, endian)
              ELSE CompilePrimitive(structure)
  /\ UNCHANGED <<utilVars, docVars, run, firstResult, enumVars, packetVars>>


\* str(value) as '{}'.format gives it: what replaces a "{}" of the format
strOf(v) ==
  IF v.kind = "int" \/ v.kind = "str" THEN strOfNat(v.n)
  ELSE IF v.kind = "float" THEN strOfNat(v.n) \o <<".", "5">>
  ELSE IF v.kind = "bool"
    THEN (IF v.n = 1 THEN <<"T", "r", "u", "e">>
                     ELSE <<"F", "a", "l", "s", "e">>)
  ELSE <<"N", "o", "n", "e">>

\* eval(formatStr), line 431: the count names are looked up among the names
\* bound by exec; a name bound nowhere raises NameError
evalRaises(formatStr, ns) ==
  \E k \in 1..Len(formatStr.counts) : ~Bound(ns, formatStr.counts[k])

RECURSIVE evalFrom(_, _, _, _)
evalFrom(fmt, counts, ns, i) ==
  IF i > Len(fmt) THEN <<>>
  ELSE IF fmt[i] = "{}"
    THEN strOf(Lookup(ns, Head(counts)).value)
           \o evalFrom(fmt, Tail(counts), ns, i + 1)
  ELSE <<fmt[i]>> \o evalFrom(fmt, counts, ns, i + 1)

eval(formatStr, ns) == evalFrom(formatStr.fmt, formatStr.counts, ns, 1)

\* lines 429-431: "NameError", "struct.error" or "" when every format of the
\* list evaluates
sizeException(fmtStrList, ns, plat) ==
  IF \E k \in 1..Len(fmtStrList) : evalRaises(fmtStrList[k], ns)
    THEN "NameError"
  ELSE IF \E k \in 1..Len(fmtStrList) :
            calcsize(eval(fmtStrList[k], ns), plat) = StructError
    THEN "struct.error"
  ELSE ""

RECURSIVE sumSizes(_, _, _)
sumSizes(fmtStrList, ns, plat) ==
  IF fmtStrList = <<>> THEN 0
  ELSE calcsize(eval(Head(fmtStrList), ns), plat)
         + sumSizes(Tail(fmtStrList), ns, plat)

\* lines 433-434
RECURSIVE sumLengths(_, _)
sumLengths(subs, lengths) ==
  IF subs = <<>> THEN 0
  ELSE Lookup(lengths, Head(subs)).len + sumLengths(Tail(subs), lengths)

\* int(pow(2, n))
RECURSIVE pow2(_)
pow2(n) == IF n <= 0 THEN 1 ELSE 2 * pow2(n - 1)

\* lines 396-403
bitFieldType(type) ==
  IF isFloatType(type) THEN "float"
  ELSE IF isBooleanType(type) THEN "bool"
  ELSE IF isStringType(type) THEN "str"
  ELSE "int"

\* lines 394-407
extractionLines(fields, type) ==
  [k \in 1..Len(fields) |->
     Line("bitfield", <<>>, <<>>, <<>>, fields[k].name, bitFieldType(type),
          fields[k].num, fields[k].size, pow2(fields[k].size))]

NoExample == -1

Chunk(name, body, units, example, fmts, subs, complete) ==
  [name |-> name, body |-> body, units |-> units, example |-> example,
   lenFmts |-> fmts, lenSubs |-> subs, complete |-> complete]

\* lines 390-477
FinishPacket ==
  /\ pc = "field"
  /\ structureIdx > Len(packets[packetIdx].structure)
  /\ LET packetName == packets[packetIdx].name
         hbf == handleBitFields(bitFieldLen, bitFieldCount, formatList,
                                varList)
         hsb == handleStructBreaks(outBufStr, hbf.formatList, countList,
                                   hbf.varList, formatStrList, endianness)
         body == hsb.pyFile \o extractionLines(bitFields, typeName)
         raised == sizeException(hsb.formatStrList, namespace, platform)
         packetLen == sumSizes(hsb.formatStrList, namespace, platform)
         known == \A k \in 1..Len(substructureList) :
                    Bound(packetLengths, substructureList[k])
         total == packetLen + sumLengths(substructureList, packetLengths)
     IN  /\ bitFieldCount' = hbf.count
         /\ formatList' = hbf.formatList
         /\ varList' = hbf.varList
         /\ stdout' = stdout \o hbf.printed
         /\ storageUnits' = storageUnits \o hbf.units
         /\ IF endianness = Unbound
              THEN \* line 392 reads a name no field has bound
                   /\ pc' = "crashed"
                   /\ exception' = "NameError"
                   /\ UNCHANGED <<formatStrList, outBufStr, packetLengths,
                                  pyFile, packetIdx>>
            ELSE IF raised # ""
              THEN /\ pc' = "crashed"
                   /\ exception' = raised
                   /\ formatStrList' = hsb.formatStrList
                   /\ outBufStr' = body
                   /\ pyFile' = Append(pyFile,
                        Chunk(packetName, body, storageUnits \o hbf.units,
                              NoExample, <<>>, <<>>, FALSE))
                   /\ UNCHANGED <<packetLengths, packetIdx>>
            ELSE /\ formatStrList' = hsb.formatStrList
                 /\ outBufStr' = body
                 /\ packetLengths' =
                      IF known
                        THEN Append(packetLengths,
                                    [name |-> packetName, len |-> total])
                        ELSE packetLengths
                 /\ pyFile' = Append(pyFile,
                      Chunk(packetName, body, storageUnits \o hbf.units,
                            IF known THEN total ELSE NoExample,
                            hsb.formatStrList, substructureList, TRUE))
                 /\ packetIdx' = packetIdx + 1
                 /\ pc' = "packet"
                 /\ UNCHANGED exception
  /\ UNCHANGED <<utilVars, docVars, run, firstResult, enumVars, structureIdx,
                 substructureList, countList, bitFieldLen, bitFields,
                 endianness, typeName>>

\* lines 479-481
Finish ==
  /\ pc = "packet"
  /\ packetIdx > Len(packets)
  /\ pc' = "done"
  /\ UNCHANGED <<utilVars, docVars, run, firstResult, exception, stdout, enumVars,
                 fieldVars, packetVars>>

(***************************************************************************)
(* outputForLanguage calls outputPython; a second call on the same         *)
(* document starts from the function's entry again.                        *)
(***************************************************************************)
Result ==
  [pc |-> pc, exception |-> exception, stdout |-> stdout,
   enumLines |-> enumLines, pyFile |-> pyFile,
   packetLengths |-> packetLengths]

NoResult ==
  [pc |-> "none", exception |-> "", stdout |-> <<>>, enumLines |-> <<>>,
   pyFile |-> <<>>, packetLengths |-> <<>>]

\* line 220 left out, the table living on between calls
keptPacketLengths(previous) == previous

\* line 220: packetLengths = {}
newPacketLengths(previous) == <<>>

Recompile ==
  /\ pc \in {"done", "crashed"}
  /\ run = 1
  /\ run' = 2
  /\ firstResult' = Result
  /\ pc' = afterEnums(specification, 1)
  /\ exception' = ""
  /\ stdout' = <<>>
  /\ enumIdx' = 1
  /\ optionIdx' = 1
  /\ varType' = Absent
  /\ value' = None
  /\ namespace' = <<>>
  /\ enumLines' = <<>>
  /\ packetIdx' = 1
  /\ structureIdx' = 1
  /\ formatList' = <<>>
  /\ formatStrList' = <<>>
  /\ substructureList' = <<>>
  /\ varList' = <<>>
  /\ countList' = <<>>
  /\ bitFieldCount' = 0
  /\ bitFieldLen' = 0
  /\ bitFields' = <<>>
  /\ storageUnits' = <<>>
  /\ endianness' = Unbound
  /\ typeName' = Unbound
  /\ outBufStr' = <<>>
  /\ packetLengths' = newPacketLengths(packetLengths)
  /\ pyFile' = <<>>
  /\ UNCHANGED <<utilVars, docVars>>

NoExit == -1000

\* neither giveUp nor writeOutBlock has been called
UtilIdle ==
  /\ errArgs = <<>>
  /\ exitCode = NoExit
  /\ lineLenDefined = FALSE
  /\ words = <<>>
  /\ startWordNum = 0
  /\ wordNum = 0
  /\ lineLen = 0
  /\ lines = <<>>
  /\ written = <<>>

\* the state at the entry of outputPython for the documents of Docs
Entry(Docs, Platforms) ==
  /\ specification \in Docs
  /\ platform \in Platforms
  /\ run = 1
  /\ firstResult = NoResult
  /\ pc = afterEnums(specification, 1)
  /\ exception = ""
  /\ stdout = <<>>
  /\ enumIdx = 1
  /\ optionIdx = 1
  /\ varType = Absent
  /\ value = None
  /\ namespace = <<>>
  /\ enumLines = <<>>
  /\ packetIdx = 1
  /\ structureIdx = 1
  /\ formatList = <<>>
  /\ formatStrList = <<>>
  /\ substructureList = <<>>
  /\ varList = <<>>
  /\ countList = <<>>
  /\ bitFieldCount = 0
  /\ bitFieldLen = 0
  /\ bitFields = <<>>
  /\ storageUnits = <<>>
  /\ endianness = Unbound
  /\ typeName = Unbound
  /\ outBufStr = <<>>
  /\ packetLengths = <<>>
  /\ pyFile = <<>>
  /\ UtilIdle

Next ==
  \/ BeginEnumeration
  \/ CompileOption
  \/ EndEnumeration
  \/ BeginPacket
  \/ CompileField
  \/ FinishPacket
  \/ Finish
  \/ Recompile


(***************************************************************************)
(* The documents explored.  Fields, options and packets are named by their *)
(* position, as the keys of a mapping are distinct.                        *)
(***************************************************************************)
fieldNames == <<"a", "b", "c", "d", "e", "f">>
optionNames == <<"A", "B", "C", "D", "F", "G">>

SeqsUpTo(S, n) == UNION {[1..k -> S] : k \in 0..n}

NoCount == [kind |-> "none", n |-> 0, label |-> ""]
LitCount(n) == [kind |-> "lit", n |-> n, label |-> ""]
NoSize == [kind |-> "none", n |-> 0, e |-> 0, o |-> 0]
LitSize(n) == [kind |-> "lit", n |-> n, e |-> 0, o |-> 0]

Field(ref, type, count, size, endian) ==
  [name |-> "", ref |-> ref, type |-> type, count |-> count, size |-> size,
   endianness |-> endian]
Primitive(type) == Field(FALSE, type, NoCount, NoSize, Absent)
Array(type, n) == Field(FALSE, type, LitCount(n), NoSize, Absent)
BitField(type, bits) == Field(FALSE, type, NoCount, LitSize(bits), Absent)
Substructure(packet) == Field(TRUE, packet, NoCount, NoSize, Absent)

Structure(fields) ==
  [k \in 1..Len(fields) |-> [fields[k] EXCEPT !.name = fieldNames[k]]]
Packet(name, endian, fields) ==
  [name |-> name, endianness |-> endian, structure |-> Structure(fields)]

Option(hasValue, v, type) ==
  [name |-> "", hasValue |-> hasValue, value |-> v, type |-> type]
Enumeration(name, type, options) ==
  [name |-> name, type |-> type,
   options |-> [k \in 1..Len(options) |->
                  [options[k] EXCEPT !.name = optionNames[k]]]]

Document(endian, es, ps) ==
  [endianness |-> endian, enums |-> es, packets |-> ps]

\* the enumeration and the packets of the documents that vary something else
plainEnums == <<Enumeration("E", Absent, <<Option(FALSE, None, Absent)>>)>>
plainP == Packet("P", Absent, <<Primitive("uint8_t")>>)
plainQ == Packet("Q", Absent, <<Primitive("uint16_t")>>)

\* one packet of bitfields, primitives and substructure fields; the widths
\* stay below 31 bits so that the masks of lines 395 fit TLC's integers, and
\* three fields of 30 bits exceed the 64 bits of the widest storage unit
BitsFields ==
  {BitField("uint8_t", 3), BitField("uint8_t", 5), BitField("uint16_t", 9),
   BitField("uint32_t", 30), Primitive("uint8_t"), Primitive("uint16_t"),
   Substructure("Q")}
BitsDocs ==
  {Document("big", plainEnums, <<plainQ, Packet("P", Absent, fields)>>) :
     fields \in SeqsUpTo(BitsFields, MaxFields)}

\* two packets that may hold each other
SubFields == {Primitive("uint8_t"), Substructure("P"), Substructure("Q")}
SubDocs ==
  {Document("big", plainEnums,
            <<Packet("P", Absent, p), Packet("Q", Absent, q)>>) :
     p \in SeqsUpTo(SubFields, MaxFields - 1),
     q \in SeqsUpTo(SubFields, MaxFields - 1)}

\* one enumeration
OptionKinds ==
  {Option(FALSE, None, Absent), Option(TRUE, IntVal(5), Absent),
   Option(TRUE, [kind |-> "float", n |-> 1], Absent),
   Option(TRUE, [kind |-> "str", n |-> 7], Absent),
   Option(TRUE, [kind |-> "text", n |-> 0], Absent),
   Option(TRUE, [kind |-> "bool", n |-> 1], Absent)}
EnumDocs ==
  {Document("big", <<Enumeration("E", Absent, options)>>, <<plainP>>) :
     options \in SeqsUpTo(OptionKinds, MaxOptions)}

\* fields, packet and document with an endianness each
EndianFields ==
  {Field(FALSE, "uint16_t", NoCount, NoSize, e) :
     e \in {Absent, "big", "little"}}
  \cup {Field(TRUE, "Q", NoCount, NoSize, e) : e \in {Absent, "little"}}
EndianDocs ==
  {Document(d, plainEnums, <<plainQ, Packet("P", p, fields)>>) :
     d \in {Absent, "big"}, p \in {Absent, "network"},
     fields \in SeqsUpTo(EndianFields, MaxFields)}

\* packets of primitive fields and arrays with a literal count
SizeFields ==
  {Primitive("uint32_t"), Primitive("uint8_t"), Array("uint16_t", 3)}
SizeDocs ==
  {Document(d, plainEnums, <<Packet("P", Absent, fields)>>) :
     d \in {Absent, "big", "little", "network", "native"},
     fields \in SeqsUpTo(SizeFields, MaxFields)
               \cup {<<Primitive(t)>> : t \in DOMAIN typeSizes}
               \cup {<<Array(t, 3)>> : t \in DOMAIN typeSizes}}

Platforms == {4, 8}

Init == Entry(BitsDocs \cup SubDocs \cup EnumDocs \cup EndianDocs
                \cup SizeDocs, Platforms)
InitBits == Entry(BitsDocs, Platforms)
InitSub == Entry(SubDocs, Platforms)
InitEnum == Entry(EnumDocs, Platforms)
InitEndian == Entry(EndianDocs, Platforms)
InitSize == Entry(SizeDocs, Platforms)

Spec == Init /\ [][Next]_vars
SpecBits == InitBits /\ [][Next]_vars
SpecSub == InitSub /\ [][Next]_vars
SpecEnum == InitEnum /\ [][Next]_vars
SpecEndian == InitEndian /\ [][Next]_vars
SpecSize == InitSize /\ [][Next]_vars


(***************************************************************************)
(* Properties.  pyFile[k] is what was emitted for packets[k].              *)
(***************************************************************************)
Range(seq) == {seq[k] : k \in 1..Len(seq)}

\* something was reported: a printed line or an exception
Reported == exception # "" \/ stdout # <<>>

HasSize(name) == Bound(packetLengths, name)

\* the field has a size that makes it a bitfield of the given width
IsBits(f, w) ==
  ~f.ref /\ f.size.kind = "lit" /\ f.size.n = w /\ isBitField(w, f.type)
IsBitFieldField(f) ==
  ~f.ref /\ f.size.kind = "lit" /\ isBitField(f.size.n, f.type)

\* the number of the bitField variable a field is extracted from
numOf(chunk, name) ==
  (CHOOSE l \in Range(chunk.body) : l.kind = "bitfield" /\ l.name = name).num
unitsOf(chunk, num) == {u \in Range(chunk.units) : u.num = num}

(***************************************************************************)
(* C1: a packet without bitfields, runtime counts and substructures gets   *)
(* the constant size sum of (catalogue bit width / 8) x (literal count, 1  *)
(* when absent), for every catalogue type and every endianness.            *)
(***************************************************************************)
literalCount(f) == IF f.count.kind = "lit" THEN f.count.n ELSE 1

RECURSIVE naturalSize(_)
naturalSize(fields) ==
  IF fields = <<>> THEN 0
  ELSE (typeSizes[Head(fields).type] \div 8) * literalCount(Head(fields))
         + naturalSize(Tail(fields))

PlainPacket(packet) ==
  \A f \in Range(packet.structure) :
    /\ ~f.ref
    /\ f.type \in DOMAIN typeSizes
    /\ f.count.kind # "ref"
    /\ f.size.kind = "none"

C1_ConstantSize ==
  \A k \in 1..Len(pyFile) :
    (PlainPacket(packets[k]) /\ pyFile[k].complete) =>
      /\ pyFile[k].example = naturalSize(packets[k].structure)
      /\ HasSize(packets[k].name)
      /\ Lookup(packetLengths, packets[k].name).len
           = naturalSize(packets[k].structure)

(***************************************************************************)
(* C2: three consecutive bitfields of 3, 5 and 9 bits.                     *)
(***************************************************************************)
Run359At(packet, i) ==
  /\ i + 2 <= Len(packet.structure)
  /\ IsBits(packet.structure[i], 3)
  /\ IsBits(packet.structure[i + 1], 5)
  /\ IsBits(packet.structure[i + 2], 9)

\* no field of the packet but those at i, i + 1, i + 2 has a size
OnlySized(packet, i) ==
  \A j \in 1..Len(packet.structure) :
    j \notin {i, i + 1, i + 2} => packet.structure[j].size.kind = "none"

\* C2 as claimed: the three fields are grouped into exactly two storage
\* units, an 8-bit unit for the first two and a 16-bit unit for the third
C2_TwoStorageUnits ==
  \A k \in 1..Len(pyFile) : \A i \in 1..Len(packets[k].structure) :
    (Run359At(packets[k], i) /\ OnlySized(packets[k], i)) =>
      LET fields == packets[k].structure
          na == numOf(pyFile[k], fields[i].name)
          nb == numOf(pyFile[k], fields[i + 1].name)
          nc == numOf(pyFile[k], fields[i + 2].name)
      IN  /\ na = nb
          /\ nc # na
          /\ \A u \in unitsOf(pyFile[k], na) : u.code = "B"
          /\ \A u \in unitsOf(pyFile[k], nc) : u.code = "H"
          /\ unitsOf(pyFile[k], na) # {}
          /\ unitsOf(pyFile[k], nc) # {}
          /\ (Len(fields) = 3 => Len(pyFile[k].units) = 2)

\* C2 as amended: the three fields are extracted from one and the same
\* storage unit, a 32-bit unit sized by their 17 bits; when they are the
\* whole packet that unit is the packet's only one
C2_OneStorageUnit ==
  \A k \in 1..Len(pyFile) : \A i \in 1..Len(packets[k].structure) :
    (Run359At(packets[k], i) /\ OnlySized(packets[k], i)) =>
      LET fields == packets[k].structure
          na == numOf(pyFile[k], fields[i].name)
          nb == numOf(pyFile[k], fields[i + 1].name)
          nc == numOf(pyFile[k], fields[i + 2].name)
      IN  /\ na = nb
          /\ nb = nc
          /\ unitsOf(pyFile[k], na) = {[num |-> na, code |-> "L", bits |-> 17]}
          /\ (Len(fields) = 3 => Len(pyFile[k].units) = 1)

C2_Witness ==
  /\ pc = "done"
  /\ \E k \in 1..Len(pyFile) :
       /\ Run359At(packets[k], 1)
       /\ Len(packets[k].structure) = 3
       /\ pyFile[k].units = <<[num |-> 0, code |-> "L", bits |-> 17]>>
       /\ pyFile[k].example = 4

(***************************************************************************)
(* C3: an option with a value resolves to it; one without resolves to 0    *)
(* when no earlier option of its enumeration has a numeric value, and to   *)
(* the previous option's value + 1 otherwise.                              *)
(***************************************************************************)
Numeric(v) == v.kind \in {"int", "float", "bool"}
PlusOne(v) ==
  IF v.kind = "float" THEN [kind |-> "float", n |-> v.n + 1]
  ELSE IntVal(v.n + 1)

optionOf(line) ==
  LET e == CHOOSE x \in Range(enums) : x.name = line.enum
  IN  CHOOSE o \in Range(e.options) : o.name = line.name

C3_AutoIncrement ==
  \A i \in 1..Len(enumLines) :
    LET line == enumLines[i]
        earlier == {j \in 1..(i - 1) : enumLines[j].enum = line.enum}
    IN  IF optionOf(line).hasValue
          THEN line.value = optionOf(line).value
        ELSE IF \A j \in earlier : ~Numeric(enumLines[j].value)
          THEN line.value = IntVal(0)
        ELSE line.value = PlusOne(enumLines[i - 1].value)

(***************************************************************************)
(* C4: two packets that hold each other: the compilation ends, an error is *)
(* reported, and neither packet gets a size.                               *)
(***************************************************************************)
Holds(outer, inner) ==
  \E f \in Range(outer.structure) : f.ref /\ f.type = inner.name

C4_CyclicSubstructure ==
  \A i, j \in 1..Len(packets) :
    (i # j /\ Holds(packets[i], packets[j]) /\ Holds(packets[j], packets[i])
       /\ pc = "done") =>
      /\ Reported
      /\ ~HasSize(packets[i].name)
      /\ ~HasSize(packets[j].name)

(***************************************************************************)
(* C5: a packet holding a packet without a compiled size gets no size, no  *)
(* emitted size, and an error is reported for it.                          *)
(***************************************************************************)
C5_UnresolvedSubstructure ==
  \A k \in 1..Len(pyFile) :
    (\E f \in Range(packets[k].structure) : f.ref /\ ~HasSize(f.type)) =>
      /\ ~HasSize(packets[k].name)
      /\ pyFile[k].example = NoExample
      /\ Reported


(***************************************************************************)
(* C6: a second compilation of the same document gives what the first one  *)
(* gave: the same enumeration values, segments, storage units, sizes,      *)
(* printed lines and outcome.                                              *)
(***************************************************************************)
C6_Idempotent ==
  (run = 2 /\ pc \in {"done", "crashed"}) => Result = firstResult

\* both runs are over, for a document in which a packet is held by a packet
\* declared in front of it, so that the first run left sizes behind
C6_Witness ==
  /\ run = 2
  /\ pc = "done"
  /\ Result = firstResult
  /\ packetLengths # <<>>
  /\ \E k \in 1..Len(pyFile) :
       pyFile[k].lenSubs # <<>> /\ pyFile[k].example = NoExample

(***************************************************************************)
(* C7: a pending run of bitfields is emitted as a storage unit before a    *)
(* following primitive or substructure field is emitted and at the end of  *)
(* the field list; no storage unit holds bitfields from both sides of a    *)
(* primitive or substructure field.  (Runs beyond 64 bits are C9's.)       *)
(***************************************************************************)
IsSegmentField(f) ==
  f.ref \/ (f.type \in DOMAIN typeFormatChar /\ ~IsBitFieldField(f))

\* some occurrence of variable v comes before every occurrence of w
EmittedBefore(body, v, w) ==
  \E s \in 1..Len(body) : \E i \in 1..Len(body[s].vars) :
    /\ body[s].vars[i] = v
    /\ \A t \in 1..Len(body) : \A j \in 1..Len(body[t].vars) :
         body[t].vars[j] = w => (s < t \/ (s = t /\ i < j))

\* variable v is emitted in front of the substructure line of the field
EmittedBeforeLine(body, v, name) ==
  \E s \in 1..Len(body) : \E t \in (s + 1)..Len(body) :
    /\ v \in Range(body[s].vars)
    /\ body[t].kind = "substructure" /\ body[t].name = name

C7_FlushBeforeSegment ==
  \A k \in 1..Len(pyFile) :
    LET fields == packets[k].structure
        body == pyFile[k].body
        unitVar(j) == bitFieldVar(numOf(pyFile[k], fields[j].name))
    IN  \A j \in 1..Len(fields) :
        (IsBitFieldField(fields[j])
           /\ \A u \in Range(pyFile[k].units) : u.bits <= 64) =>
          /\ \E s \in 1..Len(body) : unitVar(j) \in Range(body[s].vars)
          /\ \A p \in (j + 1)..Len(fields) : IsSegmentField(fields[p]) =>
               /\ IF fields[p].ref
                    THEN EmittedBeforeLine(body, unitVar(j), fields[p].name)
                    ELSE EmittedBefore(body, unitVar(j),
                                       packetVar(fields[p].name))
               /\ \A q \in (p + 1)..Len(fields) :
                    IsBitFieldField(fields[q]) => unitVar(q) # unitVar(j)

(***************************************************************************)
(* C8: each maximal run of consecutive bitfields gives exactly one storage *)
(* unit, the smallest of 8, 16, 32, 64 bits that holds the run's own bits. *)
(***************************************************************************)
\* the bit sums of the maximal runs; open: the last field was a bitfield
RECURSIVE runSumsFrom(_, _, _, _)
runSumsFrom(fields, i, sums, open) ==
  IF i > Len(fields) THEN sums
  ELSE IF IsBitFieldField(fields[i])
    THEN IF open
           THEN runSumsFrom(fields, i + 1,
                  [sums EXCEPT ![Len(sums)] = @ + fields[i].size.n], TRUE)
           ELSE runSumsFrom(fields, i + 1,
                  Append(sums, fields[i].size.n), TRUE)
  ELSE runSumsFrom(fields, i + 1, sums, FALSE)

runSums(fields) == runSumsFrom(fields, 1, <<>>, FALSE)

C8_AccumulatorReset ==
  \A k \in 1..Len(pyFile) :
    LET runs == runSums(packets[k].structure)
        units == pyFile[k].units
    IN  (\A r \in Range(runs) : r <= 64) =>
          /\ Len(units) = Len(runs)
          /\ \A i \in 1..Len(units) :
               /\ units[i].bits = runs[i]
               /\ units[i].code = storageUnit(runs[i])

(***************************************************************************)
(* C9: a flush of more than 64 pending bits fails the packet: no storage   *)
(* unit, no bitField variable and no size.                                 *)
(***************************************************************************)
C9_BitfieldOverflow ==
  \A k \in 1..Len(pyFile) :
    (\E u \in Range(pyFile[k].units) : u.bits > 64) =>
      /\ Reported
      /\ ~HasSize(packets[k].name)
      /\ pyFile[k].example = NoExample
      /\ \A l \in Range(pyFile[k].body) : \A v \in Range(l.vars) :
           v.kind # "bitField"

(***************************************************************************)
(* C10: every field is emitted in a segment that carries the field's own   *)
(* endianness: its override, else the packet's, else the document's, else  *)
(* none.                                                                   *)
(***************************************************************************)
ownEndianness(f, packet, spec) ==
  IF f.endianness # Absent THEN f.endianness
  ELSE IF packet.endianness # Absent THEN packet.endianness
  ELSE IF spec.endianness # Absent THEN spec.endianness
  ELSE ""

prefixOf(fmt) ==
  IF fmt # <<>> /\ fmt[1] \in {"@", "=", "<", ">", "!"} THEN fmt[1] ELSE ""

C10_FieldEndianness ==
  \A k \in 1..Len(pyFile) : \A l \in Range(pyFile[k].body) :
    l.kind = "segment" =>
      \A f \in Range(packets[k].structure) :
        packetVar(f.name) \in Range(l.vars) =>
          prefixOf(l.fmt)
            = endianFormatCharGet(ownEndianness(f, packets[k], specification))


(***************************************************************************)
(* Further documents: fields of types outside the catalogue and padding,   *)
(* sizes and counts that refer into the document, enumerations with types. *)
(***************************************************************************)
BadSize == [kind |-> "bad", n |-> 0, e |-> 0, o |-> 0]
RefSize(e, o) == [kind |-> "ref", n |-> 0, e |-> e, o |-> o]
RefCount(label) == [kind |-> "ref", n |-> 0, label |-> label]

\* a type name that neither table of the program knows
unknownType == "uint128_t"

\* packets of catalogue types, padding and fields of an unknown type
TypeFields ==
  {Primitive("uint8_t"), Primitive("uint16_t"), Primitive("padding"),
   Primitive(unknownType), BitField(unknownType, 8)}
TypeDocs ==
  {Document(d, plainEnums, <<Packet("P", Absent, fields), plainQ>>) :
     d \in {"big", "little"}, fields \in SeqsUpTo(TypeFields, MaxFields)}

\* an enumeration whose options A and C get their values by auto-increment
refEnums ==
  <<Enumeration("E", Absent,
      <<Option(FALSE, None, Absent), Option(TRUE, IntVal(5), Absent),
        Option(FALSE, None, Absent)>>)>>

\* sizes and counts that refer to an option's value, to a field's value or
\* to nothing, and a size that is no integer literal; Q is independent of P
RefFields ==
  {Primitive("uint8_t"),
   Field(FALSE, "uint8_t", NoCount, RefSize(1, 2), Absent),
   Field(FALSE, "uint8_t", NoCount, RefSize(1, 3), Absent),
   Field(FALSE, "uint8_t", NoCount, RefSize(0, 0), Absent),
   Field(FALSE, "uint8_t", NoCount, BadSize, Absent),
   Field(FALSE, "uint8_t", RefCount("C"), NoSize, Absent),
   Field(FALSE, "uint8_t", RefCount("a"), NoSize, Absent)}
RefDocs ==
  {Document("big", refEnums, <<Packet("P", Absent, fields), plainQ>>) :
     fields \in SeqsUpTo(RefFields, MaxFields)}

\* enumerations with a declared type and options with a type of their own
TypedOptions ==
  {Option(FALSE, None, Absent), Option(TRUE, IntVal(5), Absent),
   Option(TRUE, IntVal(5), "string"),
   Option(TRUE, [kind |-> "float", n |-> 1], Absent),
   Option(TRUE, [kind |-> "bool", n |-> 1], Absent),
   Option(TRUE, [kind |-> "str", n |-> 7], Absent)}
EnumTypeDocs ==
  {Document("big", <<Enumeration("E", t, options)>>, <<plainP>>) :
     t \in {Absent, "double", "uint8_t"},
     options \in SeqsUpTo(TypedOptions, MaxOptions)}

InitType == Entry(TypeDocs, Platforms)
InitRef == Entry(RefDocs, Platforms)
InitEnumType == Entry(EnumTypeDocs, Platforms)

SpecType == InitType /\ [][Next]_vars
SpecRef == InitRef /\ [][Next]_vars
SpecEnumType == InitEnumType /\ [][Next]_vars

(***************************************************************************)
(* handleBitFields on its own: a caller that calls it again and again with *)
(* lengths of its choice on the same two lists, as the doctest of lines    *)
(* 109-123 does.                                                           *)
(***************************************************************************)
MaxCalls == 3

\* the lengths tried: 0, both sides of each storage unit's limit, and 65
Lengths == {0, 1, 5, 8, 9, 15, 16, 17, 32, 33, 64, 65}

InitHandleBitFields ==
  /\ specification = Document("big", plainEnums, <<plainP>>)
  /\ platform = 8
  /\ run = 1
  /\ firstResult = NoResult
  /\ pc = "handleBitFields"
  /\ exception = ""
  /\ stdout = <<>>
  /\ enumIdx = 1
  /\ optionIdx = 1
  /\ varType = Absent
  /\ value = None
  /\ namespace = <<>>
  /\ enumLines = <<>>
  /\ packetIdx = 1
  /\ structureIdx = 1
  /\ formatList = <<>>
  /\ formatStrList = <<>>
  /\ substructureList = <<>>
  /\ varList = <<>>
  /\ countList = <<>>
  /\ bitFieldCount = 0
  /\ bitFieldLen \in Lengths
  /\ bitFields = <<>>
  /\ storageUnits = <<>>
  /\ endianness = Unbound
  /\ typeName = Unbound
  /\ outBufStr = <<>>
  /\ packetLengths = <<>>
  /\ pyFile = <<>>
  /\ UtilIdle

CallHandleBitFields ==
  /\ pc = "handleBitFields"
  /\ Len(stdout) + Len(formatList) < MaxCalls
  /\ LET hbf == handleBitFields(bitFieldLen, bitFieldCount, formatList,
                                varList)
     IN  /\ bitFieldCount' = hbf.count
         /\ formatList' = hbf.formatList
         /\ varList' = hbf.varList
         /\ stdout' = stdout \o hbf.printed
         /\ storageUnits' = storageUnits \o hbf.units
  /\ bitFieldLen' \in Lengths
  /\ UNCHANGED <<utilVars, docVars, run, firstResult, pc, exception, enumVars,
                 packetVars, structureIdx, formatStrList, substructureList,
                 countList, bitFields, endianness, typeName, outBufStr>>

NextHandleBitFields == CallHandleBitFields

SpecHandleBitFields == InitHandleBitFields /\ [][NextHandleBitFields]_vars


(***************************************************************************)
(* Further properties.                                                     *)
(***************************************************************************)
\* the function is past the enumerations
InPackets == enumIdx > Len(enums)

\* every field of the packet but the one at j is a plain catalogue field
OthersPlain(packet, j) ==
  \A i \in 1..Len(packet.structure) :
    i # j => LET g == packet.structure[i]
             IN  /\ ~g.ref
                 /\ g.type \in DOMAIN typeSizes
                 /\ g.count.kind = "none"
                 /\ g.size.kind = "none"

(***************************************************************************)
(* C11: a field whose type is neither a packet reference nor a catalogue   *)
(* name fails its packet: an error is reported, the packet gets no size,   *)
(* and the field is not treated as a bitfield.                             *)
(***************************************************************************)
IsUnknownField(f) == ~f.ref /\ f.type \notin DOMAIN typeSizes

C11_UnknownType ==
  \A k \in 1..Len(pyFile) : \A f \in Range(packets[k].structure) :
    IsUnknownField(f) =>
      /\ Reported
      /\ ~HasSize(packets[k].name)
      /\ pyFile[k].example = NoExample
      /\ \A l \in Range(pyFile[k].body) :
           ~(l.kind = "bitfield" /\ l.name = f.name)

(***************************************************************************)
(* C12: a padding field adds its width to the packet's size and adds no    *)
(* entry to the list of unpacked variables: every emitted segment has as   *)
(* many target variables as its format yields values.                      *)
(***************************************************************************)
\* the number of values unpack_from yields for a format: none for "x", one
\* for a string ("s", "p") whatever its count, one per repeat otherwise
RECURSIVE valuesFrom(_, _, _)
valuesFrom(fmt, i, num) ==
  IF i > Len(fmt) THEN 0
  ELSE LET c == fmt[i]
       IN  IF c \in DOMAIN digitVal
             THEN valuesFrom(fmt, i + 1,
                    (IF num < 0 THEN 0 ELSE num * 10) + digitVal[c])
           ELSE IF c \in {"@", "=", "<", ">", "!"}
             THEN valuesFrom(fmt, i + 1, -1)
           ELSE (IF c = "x" THEN 0
                 ELSE IF c \in {"s", "p"} THEN 1
                 ELSE IF num < 0 THEN 1 ELSE num)
                  + valuesFrom(fmt, i + 1, -1)

valuesOf(fmt) == valuesFrom(fmt, 1, -1)

\* fields without count and size whose type has a one-character code
OneCodeFields(packet) ==
  \A f \in Range(packet.structure) :
    /\ ~f.ref
    /\ f.type \in DOMAIN typeFormatChar
    /\ Len(charsOf(typeFormatChar[f.type])) = 1
    /\ f.count.kind = "none"
    /\ f.size.kind = "none"

C12_PaddingUnnamed ==
  \A k \in 1..Len(pyFile) :
    (OneCodeFields(packets[k]) /\ pyFile[k].complete) =>
      \A l \in Range(pyFile[k].body) :
        l.kind = "segment" =>
          /\ Len(l.vars) = valuesOf(l.fmt)
          /\ \A f \in Range(packets[k].structure) :
               f.type = "padding" => packetVar(f.name) \notin Range(l.vars)

(***************************************************************************)
(* C13: an option with a value has the type of its own override, else of   *)
(* the enumeration's declaration, else the type of the value's literal.    *)
(***************************************************************************)
inferredType(v) ==
  IF v.kind = "float" THEN "float"
  ELSE IF v.kind \in {"str", "text"} THEN "str"
  ELSE IF v.kind = "bool" THEN "bool"
  ELSE "int"

enumOf(line) == CHOOSE x \in Range(enums) : x.name = line.enum

C13_OptionType ==
  \A i \in 1..Len(enumLines) :
    LET o == optionOf(enumLines[i])
        e == enumOf(enumLines[i])
    IN  o.hasValue =>
          enumLines[i].type =
            IF o.type # Absent THEN normalType(o.type)
            ELSE IF e.type # Absent THEN normalType(e.type)
            ELSE inferredType(o.value)

(***************************************************************************)
(* C14: an option without a value that follows an option whose value is    *)
(* not numeric fails the enumeration; its value is not restarted at 0.     *)
(***************************************************************************)
C14_InvalidSequence ==
  \A i \in 2..Len(enumLines) :
    (/\ ~optionOf(enumLines[i]).hasValue
     /\ enumLines[i - 1].enum = enumLines[i].enum
     /\ ~Numeric(enumLines[i - 1].value)) =>
      /\ Reported
      /\ enumLines[i].value # IntVal(0)

(***************************************************************************)
(* C15: a size that refers to an enumeration option resolves to the value  *)
(* the enumeration pass gave that option, auto-incremented values          *)
(* included, and the field is a bitfield or not by that value.             *)
(***************************************************************************)
OptionExists(size) ==
  /\ size.e \in 1..Len(enums)
  /\ size.o \in 1..Len(enums[size.e].options)

\* the value the enumeration pass gave the option
resolvedValue(size) ==
  (CHOOSE l \in Range(enumLines) :
     /\ l.enum = enums[size.e].name
     /\ l.name = enums[size.e].options[size.o].name).value

C15_OptionReference ==
  \A k \in 1..Len(packets) : \A j \in 1..Len(packets[k].structure) :
    LET f == packets[k].structure[j]
    IN  (/\ InPackets
         /\ ~f.ref
         /\ f.size.kind = "ref"
         /\ OptionExists(f.size)
         /\ OthersPlain(packets[k], j)) =>
          /\ ~(pc = "crashed" /\ packetIdx = k /\ structureIdx = j)
          /\ (k <= Len(pyFile)
                /\ isBitField(resolvedValue(f.size).n, f.type)) =>
               \E l \in Range(pyFile[k].body) :
                 /\ l.kind = "bitfield"
                 /\ l.name = f.name
                 /\ l.size = resolvedValue(f.size).n

(***************************************************************************)
(* C16: a count that refers to a field of the packet is a runtime binding: *)
(* the packet compiles without error, its segment carries the field's name *)
(* as count, and the packet gets no constant size.                         *)
(***************************************************************************)
IsRuntimeCount(packet, f) ==
  /\ ~f.ref
  /\ f.count.kind = "ref"
  /\ \E g \in Range(packet.structure) : g.name = f.count.label

C16_RuntimeCount ==
  \A k \in 1..Len(packets) : \A j \in 1..Len(packets[k].structure) :
    LET f == packets[k].structure[j]
    IN  (/\ InPackets
         /\ IsRuntimeCount(packets[k], f)
         /\ f.size.kind = "none"
         /\ OthersPlain(packets[k], j)) =>
          /\ ~(pc = "crashed" /\ packetIdx = k)
          /\ k <= Len(pyFile) =>
               /\ pyFile[k].complete
               /\ pyFile[k].example = NoExample
               /\ ~HasSize(packets[k].name)
               /\ \E l \in Range(pyFile[k].body) :
                    l.kind = "segment" /\ f.count.label \in Range(l.counts)

(***************************************************************************)
(* C17: a size that resolves to no bit width (a literal that is no         *)
(* integer, a reference that leads nowhere) is reported as an error; the   *)
(* field is not made a bitfield of 0 bits.                                 *)
(***************************************************************************)
Unsizable(f) ==
  /\ ~f.ref
  /\ \/ f.size.kind = "bad"
     \/ f.size.kind = "ref" /\ ~pointerResolves(specification, f.size)
          /\ ~OptionExists(f.size)

C17_UnresolvableSize ==
  \A k \in 1..Len(pyFile) : \A f \in Range(packets[k].structure) :
    Unsizable(f) =>
      /\ Reported
      /\ \A l \in Range(pyFile[k].body) :
           ~(l.kind = "bitfield" /\ l.name = f.name /\ l.size = 0)

(***************************************************************************)
(* C18: an error in one packet does not stop the document: every packet    *)
(* that does not hold the failed one is still compiled.                    *)
(***************************************************************************)
C18_ErrorsDoNotStop ==
  (pc = "crashed" /\ InPackets) =>
    \A k \in 1..Len(packets) :
      (k # packetIdx /\ ~Holds(packets[k], packets[packetIdx])) =>
        k <= Len(pyFile) /\ pyFile[k].complete

(***************************************************************************)
(* C19: when no packet holds itself, directly or through others, every     *)
(* packet without runtime counts gets the constant size of its own fields  *)
(* plus the sizes of the packets it holds, whatever the declaration order. *)
(***************************************************************************)
packetNamed(name) == CHOOSE p \in Range(packets) : p.name = name

Contains(packet) == {f.type : f \in {g \in Range(packet.structure) : g.ref}}

\* the packets reached from those of S in at most n steps
RECURSIVE Reach(_, _)
Reach(S, n) ==
  IF n = 0 THEN S
  ELSE Reach(S \cup UNION {Contains(packetNamed(x)) : x \in S}, n - 1)

Acyclic ==
  \A p \in Range(packets) : p.name \notin Reach(Contains(p), Len(packets))

RECURSIVE composedSize(_, _)
composedSize(fields, depth) ==
  IF fields = <<>> \/ depth < 0 THEN 0
  ELSE (IF Head(fields).ref
          THEN composedSize(packetNamed(Head(fields).type).structure,
                            depth - 1)
          ELSE (typeSizes[Head(fields).type] \div 8)
                 * literalCount(Head(fields)))
         + composedSize(Tail(fields), depth)

C19_DependencyOrder ==
  (pc = "done" /\ Acyclic) =>
    \A p \in Range(packets) :
      (\A f \in Range(p.structure) : f.count.kind # "ref") =>
        /\ HasSize(p.name)
        /\ Lookup(packetLengths, p.name).len
             = composedSize(p.structure, Len(packets))

(***************************************************************************)
(* C20: handleBitFields leaves the lists alone for length 0, appends one   *)
(* storage-unit code and one bitField name for a length of 1 to 64, and    *)
(* after any sequence of calls formatList holds as many storage-unit codes *)
(* as varList holds bitField names.                                        *)
(***************************************************************************)
unitCodes(list) == SelectSeq(list, LAMBDA c : c \in {"B", "H", "L", "Q"})
bitFieldNames(list) == SelectSeq(list, LAMBDA v : v.kind = "bitField")

C20_HandleBitFields ==
  pc = "handleBitFields" =>
    Len(unitCodes(formatList)) = Len(bitFieldNames(varList))


(***************************************************************************)
(* common.py, giveUp (lines 175-202; structspec.py has the same function). *)
(* err.args is a sequence of Python values; besides the kinds of the       *)
(* enumeration values an argument may be a list.                           *)
(***************************************************************************)
MaxArgs == 2

\* int(v): "" when it returns, else the exception it raises
intRaises(v) ==
  IF v.kind = "text" THEN "ValueError"
  ELSE IF v.kind \in {"None", "list"} THEN "TypeError"
  ELSE ""

\* int(v) when it returns: a float is truncated, a decimal string parsed
intOf(v) == v.n

\* lines 198-201: the exception that leaves giveUp instead of the exit
giveUpRaises(args) ==
  IF args = <<>> THEN ""                     \* IndexError, caught
  ELSE IF intRaises(args[1]) = "ValueError" THEN ""      \* caught
  ELSE intRaises(args[1])

\* lines 198-201
errNum(args) ==
  IF args = <<>> \/ intRaises(args[1]) # "" THEN 5 ELSE intOf(args[1])

giveUp ==
  /\ pc = "giveUp"
  /\ stdout' = Append(stdout, "category: err")
  /\ IF giveUpRaises(errArgs) # ""
       THEN /\ pc' = "crashed"
            /\ exception' = giveUpRaises(errArgs)
            /\ UNCHANGED exitCode
       ELSE /\ pc' = "exited"
            /\ exitCode' = errNum(errArgs)
            /\ UNCHANGED exception
  /\ UNCHANGED <<docVars, run, firstResult, enumVars, fieldVars, packetVars,
                 errArgs, lineLenDefined, words, startWordNum, wordNum,
                 lineLen, lines, written>>

ArgValues ==
  {IntVal(23), IntVal(0), [kind |-> "str", n |-> 12],
   [kind |-> "text", n |-> 0], [kind |-> "float", n |-> 2],
   [kind |-> "bool", n |-> 1], None, [kind |-> "list", n |-> 0]}

\* the state outside outputPython
Outside ==
  /\ specification = Document("big", plainEnums, <<plainP>>)
  /\ platform = 8
  /\ run = 1
  /\ firstResult = NoResult
  /\ exception = ""
  /\ stdout = <<>>
  /\ enumIdx = 1
  /\ optionIdx = 1
  /\ varType = Absent
  /\ value = None
  /\ namespace = <<>>
  /\ enumLines = <<>>
  /\ packetIdx = 1
  /\ structureIdx = 1
  /\ formatList = <<>>
  /\ formatStrList = <<>>
  /\ substructureList = <<>>
  /\ varList = <<>>
  /\ countList = <<>>
  /\ bitFieldCount = 0
  /\ bitFieldLen = 0
  /\ bitFields = <<>>
  /\ storageUnits = <<>>
  /\ endianness = Unbound
  /\ typeName = Unbound
  /\ outBufStr = <<>>
  /\ packetLengths = <<>>
  /\ pyFile = <<>>

InitGiveUp ==
  /\ Outside
  /\ pc = "giveUp"
  /\ errArgs \in SeqsUpTo(ArgValues, MaxArgs)
  /\ exitCode = NoExit
  /\ lineLenDefined = FALSE
  /\ words = <<>>
  /\ startWordNum = 0
  /\ wordNum = 0
  /\ lineLen = 0
  /\ lines = <<>>
  /\ written = <<>>

NextGiveUp == giveUp

SpecGiveUp == InitGiveUp /\ [][NextGiveUp]_vars

(***************************************************************************)
(* writeOutBlock: common.py lines 229-260 and structspec.py lines 288-316.  *)
(* The two copies differ in one thing: structspec.py defines __line_len__  *)
(* (line 53), common.py does not.  Words are numbered from 0 as in the     *)
(* code; words[k + 1] is the length of word k.                             *)
(***************************************************************************)
MaxWords == 3

__line_len__ == 65

\* the word lengths tried: short ones, two that do not share a line, and
\* one longer than a line
WordLengths == {1, 30, 40, 66}

\* line 250: the test of the outer loop; its exit is lines 259
writeOutBlockTest ==
  /\ pc = "writeOutBlock"
  /\ IF wordNum < Len(words)
       THEN /\ lineLen' = 0
            /\ pc' = "writeOutBlockLine"
            /\ UNCHANGED written
       ELSE /\ written' = lines
            /\ pc' = "returned"
            /\ UNCHANGED lineLen
  /\ UNCHANGED <<docVars, run, firstResult, exception, stdout, enumVars,
                 fieldVars, packetVars, errArgs, exitCode, lineLenDefined,
                 words, startWordNum, wordNum, lines>>

\* lines 252-256: one round of the inner loop
writeOutBlockWord ==
  /\ pc = "writeOutBlockLine"
  /\ IF wordNum >= Len(words)
       THEN /\ pc' = "writeOutBlockAppend"
            /\ UNCHANGED <<exception, lineLen, wordNum>>
     ELSE IF ~lineLenDefined
       THEN \* line 253 reads a name the module does not define
            /\ pc' = "crashed"
            /\ exception' = "NameError"
            /\ UNCHANGED <<lineLen, wordNum>>
     ELSE IF lineLen + words[wordNum + 1] > __line_len__
       THEN /\ pc' = "writeOutBlockAppend"
            /\ UNCHANGED <<exception, lineLen, wordNum>>
     ELSE /\ lineLen' = lineLen + words[wordNum + 1]
          /\ wordNum' = wordNum + 1
          /\ UNCHANGED <<pc, exception>>
  /\ UNCHANGED <<docVars, run, firstResult, stdout, enumVars, fieldVars,
                 packetVars, errArgs, exitCode, lineLenDefined, words,
                 startWordNum, lines, written>>

\* lines 257-258: '{}{}{}'.format(prefix, ' '.join(...)) has three fields
\* and two arguments (linesep is handed to append): IndexError
writeOutBlockAppend ==
  /\ pc = "writeOutBlockAppend"
  /\ pc' = "crashed"
  /\ exception' = "IndexError"
  /\ UNCHANGED <<docVars, run, firstResult, stdout, enumVars, fieldVars,
                 packetVars, utilVars>>

InitWriteOutBlock ==
  /\ Outside
  /\ pc = "writeOutBlock"
  /\ errArgs = <<>>
  /\ exitCode = NoExit
  /\ lineLenDefined \in BOOLEAN
  /\ words \in SeqsUpTo(WordLengths, MaxWords)
  /\ startWordNum = 0
  /\ wordNum = 0
  /\ lineLen = 0
  /\ lines = <<>>
  /\ written = <<>>

NextWriteOutBlock ==
  \/ writeOutBlockTest
  \/ writeOutBlockWord
  \/ writeOutBlockAppend

SpecWriteOutBlock == InitWriteOutBlock /\ [][NextWriteOutBlock]_vars

(***************************************************************************)
(* C21: giveUp always ends in an exit: with the integer value of err's     *)
(* first argument when it converts to an integer, with 5 otherwise.        *)
(***************************************************************************)
Convertible(v) == v.kind \in {"int", "bool", "float", "str"}

\* what a step out of giveUp has to be
ExitsAsClaimed ==
  pc = "giveUp" =>
    /\ pc' = "exited"
    /\ exitCode' = IF errArgs # <<>> /\ Convertible(errArgs[1])
                     THEN intOf(errArgs[1]) ELSE 5

C21_GiveUpExits == [][ExitsAsClaimed]_vars

(***************************************************************************)
(* C25: writeOutBlock ends for every string, each pass of the outer loop   *)
(* takes at least one word, and every word is written once, in order.      *)
(***************************************************************************)
\* the words of the lines, in order
RECURSIVE flatten(_)
flatten(ls) == IF ls = <<>> THEN <<>> ELSE Head(ls) \o flatten(Tail(ls))

\* what a step of writeOutBlock has to be
WritesAsClaimed ==
  pc \in {"writeOutBlock", "writeOutBlockLine", "writeOutBlockAppend"} =>
    /\ pc' # "crashed"
    /\ (pc = "writeOutBlockAppend" => wordNum > startWordNum)
    /\ (pc' = "returned" =>
          flatten(written') = [k \in 1..Len(words) |-> k - 1])

C25_WriteOutBlockEnds == [][WritesAsClaimed]_vars


(***************************************************************************)
(* C22: within a storage unit member k, of width w, is extracted as the w  *)
(* bits at the offset of the widths in front of it: with a mask of w       *)
(* one-bits and a shift on to the next member; the value is below 2^w.     *)
(***************************************************************************)
\* a & b of the emitted code
RECURSIVE BitAnd(_, _)
BitAnd(a, b) ==
  IF a = 0 \/ b = 0 THEN 0
  ELSE (a % 2) * (b % 2) + 2 * BitAnd(a \div 2, b \div 2)

\* the values of a storage unit the extraction is tried on
RawValues == 0..255

\* the bits by which the lines in front of line i have shifted its unit
RECURSIVE shiftedBefore(_, _, _)
shiftedBefore(body, i, j) ==
  IF j >= i THEN 0
  ELSE (IF body[j].kind = "bitfield" /\ body[j].num = body[i].num
          THEN body[j].size ELSE 0)
         + shiftedBefore(body, i, j + 1)

\* what the emitted lines 404-407 give line i's field for the unit value raw:
\* each "bitField <<= size" in front has doubled the unit size times
extracted(body, i, raw) ==
  BitAnd(raw * pow2(shiftedBefore(body, i, 1)), body[i].mask)

C22_BitPositions ==
  \A k \in 1..Len(pyFile) :
    LET body == pyFile[k].body
    IN  (\A l \in Range(body) : l.kind = "bitfield" => l.size \in 1..9) =>
          \A i \in 1..Len(body) :
            body[i].kind = "bitfield" =>
              /\ body[i].mask = pow2(body[i].size) - 1
              /\ \A raw \in RawValues :
                   /\ extracted(body, i, raw) < pow2(body[i].size)
                   /\ extracted(body, i, raw)
                        = (raw \div pow2(shiftedBefore(body, i, 1)))
                            % pow2(body[i].size)

(***************************************************************************)
(* C23: in a packet of primitive and substructure fields every primitive   *)
(* field is in exactly one emitted segment, and the packet's size is the   *)
(* sum of its fields' widths and of the sizes of the packets it holds.     *)
(***************************************************************************)
\* the places of the emitted segments that unpack into variable v
placesOf(body, v) ==
  {<<s, i>> \in (1..Len(body)) \X (1..MaxFields + 1) :
     /\ body[s].kind = "segment"
     /\ i <= Len(body[s].vars)
     /\ body[s].vars[i] = v}

\* fields without count and size, of catalogue types or packets
PlainOrSubstructure(packet) ==
  \A f \in Range(packet.structure) :
    /\ f.count.kind = "none"
    /\ f.size.kind = "none"
    /\ f.ref \/ f.type \in DOMAIN typeSizes

\* every packet held is declared in front of packet k and has a size
HeldSized(k) ==
  \A f \in Range(packets[k].structure) :
    f.ref => /\ \E i \in 1..(k - 1) : packets[i].name = f.type
             /\ HasSize(f.type)

RECURSIVE sizeWithHeld(_)
sizeWithHeld(fields) ==
  IF fields = <<>> THEN 0
  ELSE (IF Head(fields).ref
          THEN Lookup(packetLengths, Head(fields).type).len
          ELSE typeSizes[Head(fields).type] \div 8)
         + sizeWithHeld(Tail(fields))

C23_OneSegmentPerField ==
  \A k \in 1..Len(pyFile) :
    (PlainOrSubstructure(packets[k]) /\ pyFile[k].complete) =>
      /\ \A f \in Range(packets[k].structure) :
           ~f.ref => Cardinality(placesOf(pyFile[k].body,
                                          packetVar(f.name))) = 1
      /\ HeldSized(k) =>
           pyFile[k].example = sizeWithHeld(packets[k].structure)

(***************************************************************************)
(* C24: the count of an array field applies to the field's own element     *)
(* type: not to a storage unit flushed in front of it, and not to the next *)
(* field when the counted field is a bitfield or of an unknown type.       *)
(***************************************************************************)
\* packets of bitfields, arrays, a counted bitfield and a counted field of
\* an unknown type
CountFields ==
  {Primitive("uint8_t"), Array("uint16_t", 3), BitField("uint8_t", 3),
   Field(FALSE, "uint8_t", LitCount(3), LitSize(3), Absent),
   Array(unknownType, 3)}
CountDocs ==
  {Document(d, plainEnums, <<Packet("P", Absent, fields), plainQ>>) :
     d \in {"big", "little"}, fields \in SeqsUpTo(CountFields, MaxFields)}

InitCount == Entry(CountDocs, Platforms)
SpecCount == InitCount /\ [][Next]_vars

\* the items of a format: [num, code], num -1 without a repeat count, code
\* "" for a count at the end
RECURSIVE itemsFrom(_, _, _)
itemsFrom(fmt, i, num) ==
  IF i > Len(fmt)
    THEN (IF num >= 0 THEN <<[num |-> num, code |-> ""]>> ELSE <<>>)
  ELSE LET c == fmt[i]
       IN  IF c \in DOMAIN digitVal
             THEN itemsFrom(fmt, i + 1,
                    (IF num < 0 THEN 0 ELSE num * 10) + digitVal[c])
           ELSE IF c \in {"@", "=", "<", ">", "!"}
             THEN itemsFrom(fmt, i + 1, -1)
           ELSE <<[num |-> num, code |-> c]>> \o itemsFrom(fmt, i + 1, -1)

itemsOf(fmt) == itemsFrom(fmt, 1, -1)

fieldNamed(packet, name) ==
  CHOOSE f \in Range(packet.structure) : f.name = name

\* the repeat count the field's own item has to carry
ownCount(f) == IF f.count.kind = "lit" THEN f.count.n ELSE -1

\* fields with a literal count or none, of one-character or unknown types
CountedOneCode(packet) ==
  \A f \in Range(packet.structure) :
    /\ ~f.ref
    /\ f.count.kind # "ref"
    /\ f.size.kind \in {"none", "lit"}
    /\ f.type \in DOMAIN typeFormatChar =>
         Len(charsOf(typeFormatChar[f.type])) = 1

C24_CountOnOwnType ==
  \A k \in 1..Len(pyFile) :
    CountedOneCode(packets[k]) =>
      \A l \in Range(pyFile[k].body) :
        l.kind = "segment" =>
          /\ Len(itemsOf(l.fmt)) = Len(l.vars)
          /\ \A i \in 1..Len(l.vars) :
               i <= Len(itemsOf(l.fmt)) =>
                 IF l.vars[i].kind = "packet"
                   THEN LET f == fieldNamed(packets[k], l.vars[i].name)
                        IN  /\ itemsOf(l.fmt)[i].num = ownCount(f)
                            /\ itemsOf(l.fmt)[i].code = typeFormatChar[f.type]
                   ELSE itemsOf(l.fmt)[i].num = -1

====
